---- MODULE Spec2Model ----
(***************************************************************************)
(* myflix: the request-validation pipeline of the users routes            *)
(* (src/index.js), the validator helpers (src/helpers.js, which holds two *)
(* generations of the helper module: lines 1-199 and lines 201-338) and   *)
(* the user schema (src/unnamed/part_000).                                 *)
(*                                                                         *)
(* JavaScript values are modelled with their types kept apart:            *)
(*   - a username is a sequence of one-character strings;                  *)
(*   - an email is a record [local, dom];                                  *)
(*   - a body birthday is [t |-> "string", s], a stored one [t |-> "date", *)
(*     s] or [t |-> "null", s], so that !== sees the type;                 *)
(*   - an ObjectId is [oid |-> hex], a body id is the string itself.       *)
(* Error messages are strings; the interpolated username / exception text *)
(* of a message is left out.                                               *)
(***************************************************************************)
EXTENDS Integers, Sequences, FiniteSets, TLC

\* ------------------------------------------------------------------ bounds
MaxReq == 2          \* requests in flight at once (SpecConc)
MaxStarted == 2      \* requests started in one behaviour (SpecConc)
MaxDocs == 3         \* documents the users collection can hold
MaxFavLen == 2       \* longest favourites list of a request body
MaxBodyFields == 2   \* recognised fields one request body carries (Spec)

\* --------------------------------------------------------- program constants
MinUsernameLength == 5

\* --------------------------------------------------------------- characters
LowerCase == {"a","b","c","d","e","f","g","h","i","j","k","l","m",
              "n","o","p","q","r","s","t","u","v","w","x","y","z"}
UpperCase == {"A","B","C","D","E","F","G","H","I","J","K","L","M",
              "N","O","P","Q","R","S","T","U","V","W","X","Y","Z"}
Digits == {"0","1","2","3","4","5","6","7","8","9"}

\* /^[a-zA-Z0-9]+$/.test(username)
IsAlphanumeric(username) ==
    /\ Len(username) >= 1
    /\ \A i \in 1..Len(username) : username[i] \in LowerCase \cup UpperCase \cup Digits

\* ----------------------------------------------------------------- messages
Accept == "accept"
MsgUsernameLength == "The username must be at least 5 characters long."
MsgUsernameAlnum == "The username contains non alphanumeric characters - not allowed."
MsgUsernameExists == "The username already exists in the database."
MsgUsernameMissing == "The username does not exist in the database."
MsgUsernameMissing_2 == "The username provided in the URL does not exist in the database."
MsgDatabaseError == "Database error: "
MsgNotAllowedDelete == "You are not allowed to delete this user!"
MsgNotAllowedUpdate == "You are not allowed to update this user!"
MsgEmailInvalid == "Email does not appear to be valid"
MsgBirthdayInvalid == "Birthday is not a vaild date"
MsgUnknownFields == "Request body contains unknown fields."
MsgMovieNotFound == "Movie not found."
MsgBodyEmpty == "My Body Is Nobody"
MsgUnchanged(field) == field \o " is the same as the current " \o field \o "."

\* ------------------------------------------------------------ pure helpers
\* users.exists / collection.findById answer "found" or "none", or "fault" when
\* the storage layer throws.

\* The validator with the two invocation contexts conflated: every field is
\* asserted as new.
ValidateUsernameAsNew(request, username, lookup) ==
    IF Len(username) < MinUsernameLength THEN MsgUsernameLength
    ELSE IF ~IsAlphanumeric(username) THEN MsgUsernameAlnum
    ELSE IF lookup = "fault" THEN MsgDatabaseError
    ELSE IF lookup = "found" THEN MsgUsernameExists
    ELSE Accept

\* _validateUsername, first helper module.
ValidateUsername(request, username, lookup) ==
    IF Len(username) < MinUsernameLength THEN MsgUsernameLength
    ELSE IF ~IsAlphanumeric(username) THEN MsgUsernameAlnum
    ELSE IF lookup = "fault" THEN MsgDatabaseError
    ELSE IF (request = "body" /\ lookup = "found") \/ (request = "param" /\ lookup = "none")
         THEN (IF lookup = "found" THEN MsgUsernameExists ELSE MsgUsernameMissing)
    ELSE Accept

\* _validateUsername, second helper module.
ValidateUsername_2(request, username, lookup) ==
    IF Len(username) < MinUsernameLength THEN MsgUsernameLength
    ELSE IF ~IsAlphanumeric(username) THEN MsgUsernameAlnum
    ELSE IF request = "param"
         THEN (IF lookup = "fault" THEN MsgDatabaseError
               ELSE IF lookup # "found" THEN MsgUsernameMissing_2
               ELSE Accept)
    ELSE IF request = "body"
         THEN (IF lookup = "fault" THEN MsgDatabaseError
               ELSE IF lookup = "found" THEN MsgUsernameExists
               ELSE Accept)
    ELSE Accept

\* Whether the validator reaches its users.exists call for this username.
UsernameLookedUp(username) ==
    Len(username) >= MinUsernameLength /\ IsAlphanumeric(username)

\* users.hashPassword / user.validatePassword: the one-way hash and its check.
HashPassword(plain, salt) == [hash |-> plain, salt |-> salt]
ValidatePassword(user, plain) == user.password.hash = plain

\* ObjectId.prototype.toHexString
ToHexString(objectId) == objectId.oid

\* fieldValue.some((id, i) => id !== favourites[i].toHexString()), left to right.
RECURSIVE SomeDiffers(_, _, _)
SomeDiffers(fieldValue, favourites, i) ==
    IF i > Len(fieldValue) THEN FALSE
    ELSE IF fieldValue[i] # ToHexString(favourites[i]) THEN TRUE
    ELSE SomeDiffers(fieldValue, favourites, i + 1)

\* The changed-check comparing the two lists as sets: order and duplicates ignored.
ValidateFieldUnchangedAsSet(field, fieldValue, user) ==
    IF field = "password" THEN ~ValidatePassword(user, fieldValue)
    ELSE IF field = "favourites"
         THEN {fieldValue[i] : i \in 1..Len(fieldValue)}
                 # {ToHexString(user.favourites[i]) : i \in 1..Len(user.favourites)}
    ELSE fieldValue # user[field]

\* _validateFieldUnchanged, first helper module: TRUE when the chain passes.
ValidateFieldUnchanged(field, fieldValue, user) ==
    IF field = "password" THEN ~ValidatePassword(user, fieldValue)
    ELSE IF field = "favourites"
         THEN \/ Len(fieldValue) # Len(user.favourites)
              \/ SomeDiffers(fieldValue, user.favourites, 1)
    ELSE fieldValue # user[field]

\* The for loop of _validateUserFieldUnchanged.
RECURSIVE FavouritesLoop(_, _, _)
FavouritesLoop(fieldValue, favourites, i) ==
    IF i > Len(fieldValue) THEN FALSE
    ELSE IF fieldValue[i] # ToHexString(favourites[i]) THEN TRUE
    ELSE FavouritesLoop(fieldValue, favourites, i + 1)

\* _validateUserFieldUnchanged, second helper module: TRUE when the chain passes.
\* (Its last comparison, plaintext === stored hash, is never equal for a password.)
ValidateUserFieldUnchanged(field, fieldValue, user) ==
    IF field = "password" /\ ValidatePassword(user, fieldValue) THEN FALSE
    ELSE IF field = "favourites"
         THEN (IF Len(fieldValue) # Len(user.favourites) THEN TRUE
               ELSE FavouritesLoop(fieldValue, user.favourites, 1))
    ELSE IF field # "password" /\ fieldValue = user[field] THEN FALSE
    ELSE TRUE

\* ------------------------------------------------------------- object ids
\* Strings a request can carry as an id: "M1" is "m1" in upper-case hex, "zz" is
\* no ObjectId at all.
IdStrings == {"m1", "m2", "m3", "M1", "zz"}
LowerHex == [s \in IdStrings |-> IF s = "M1" THEN "m1" ELSE s]

\* mongoose.Types.ObjectId.isValid(id) for a string.
IsValidObjectId(id) == id \in {"m1", "m2", "m3", "M1"}

\* The ObjectId a valid id string is cast to.
CastObjectId(id) == [oid |-> LowerHex[id]]

\* The wrong bound variable of the second helper module: the date-fns locale
\* object `id`, which findById cannot cast.
LocaleId == "date-fns/locale id"

\* await collection.findById(id) as the nth lookup of a validator; faultAt is
\* the lookup on which the storage faults (0: none).
FindById(collection, id, nth, faultAt) ==
    IF nth = faultAt \/ id = LocaleId THEN "fault"
    ELSE IF CastObjectId(id) \in collection THEN "found"
    ELSE "none"

\* The for loop over the ids: the outcome and the ids looked up so far.
RECURSIVE IdLoop(_, _, _, _, _, _)
IdLoop(ids, i, collection, errorMessage, faultAt, lookups) ==
    IF i > Len(ids) THEN [outcome |-> Accept, lookups |-> lookups]
    ELSE IF ~IsValidObjectId(ids[i]) THEN [outcome |-> errorMessage, lookups |-> lookups]
    ELSE LET found == FindById(collection, ids[i], Len(lookups) + 1, faultAt)
             looked == Append(lookups, ids[i])
         IN  IF found = "fault" THEN [outcome |-> MsgDatabaseError, lookups |-> looked]
             ELSE IF found = "none" THEN [outcome |-> errorMessage, lookups |-> looked]
             ELSE IdLoop(ids, i + 1, collection, errorMessage, faultAt, looked)

\* _validateIdInCollection, first helper module. fieldValue is the list of ids,
\* or the one id of a scalar field (isArray = FALSE).
ValidateIdInCollection(isArray, fieldValue, collection, errorMessage, faultAt) ==
    IF isArray
    THEN IdLoop(fieldValue, 1, collection, errorMessage, faultAt, <<>>)
    ELSE IdLoop(<<fieldValue[1]>>, 1, collection, errorMessage, faultAt, <<>>)

\* _validateIdInCollection, second helper module: the check after the loop tests
\* the whole field with ObjectId.isValid (false for an array) and looks up `id`,
\* which is not the field but the imported locale.
ValidateIdInCollection_2(isArray, fieldValue, collection, errorMessage, faultAt) ==
    LET loop == IF isArray
                THEN IdLoop(fieldValue, 1, collection, errorMessage, faultAt, <<>>)
                ELSE [outcome |-> Accept, lookups |-> <<>>]
    IN  IF loop.outcome # Accept THEN loop
        ELSE IF isArray \/ ~IsValidObjectId(fieldValue[1])
             THEN [outcome |-> errorMessage, lookups |-> loop.lookups]
        ELSE IF FindById(collection, LocaleId, Len(loop.lookups) + 1, faultAt) = "fault"
             THEN [outcome |-> MsgDatabaseError, lookups |-> Append(loop.lookups, LocaleId)]
        ELSE [outcome |-> Accept, lookups |-> Append(loop.lookups, LocaleId)]

\* ------------------------------------------------------- dates and emails
IsoDates == {"1990-01-01", "2000-02-02"}
InvalidDate == [t |-> "date", s |-> "NaN"]
NullValue == [t |-> "null", s |-> ""]

\* parseISO(value)
ParseISO(value) ==
    IF value.t = "string" /\ value.s \in IsoDates THEN [t |-> "date", s |-> value.s]
    ELSE InvalidDate

\* isValid(date)
IsValid(date) == date # InvalidDate

\* _valiDate
ValiDate(value, errorMessage) ==
    IF IsValid(ParseISO(value)) THEN Accept ELSE errorMessage

EmailParts == {"alice", "Alice", "bobby", "carol", "x.io", ""}
LowerPart == [s \in EmailParts |-> IF s = "Alice" THEN "alice" ELSE s]

\* isEmail()
IsEmail(email) == email.local # "" /\ email.dom # ""

\* normalizeEmail()
NormalizeEmail(email) == [local |-> LowerPart[email.local], dom |-> LowerPart[email.dom]]

\* ================================================================== state
VARIABLES
    users,      \* the users collection: slot -> document or NoDoc, in natural order
    movies,     \* the movies collection: the ObjectIds of its documents
    genres,     \* the genres collection: the names of its documents
    directors,  \* the directors collection: the names of its documents
    reqs,       \* the requests in flight: middleware position and request state
    started,    \* requests started so far
    unit        \* a helper applied on its own: its arguments and its results

vars == <<users, movies, genres, directors, reqs, started, unit>>

Reqs == 1..MaxReq
Slots == 1..MaxDocs

\* ------------------------------------------------------------- value pools
ALICE == <<"a","l","i","c","e">>
BOBBY == <<"b","o","b","b","y">>
CAROL == <<"c","a","r","o","l">>
SHORT == <<"a","b","c","d">>
BADCH == <<"a","l","!","c","e">>
SHORTBAD == <<"a","!">>
EMPTY == <<>>

EmailAlice == [local |-> "alice", dom |-> "x.io"]
EmailAliceUpper == [local |-> "Alice", dom |-> "x.io"]
EmailBobby == [local |-> "bobby", dom |-> "x.io"]
EmailCarol == [local |-> "carol", dom |-> "x.io"]
EmailBad == [local |-> "carol", dom |-> ""]
EmailEmpty == [local |-> "", dom |-> ""]

Str(s) == [t |-> "string", s |-> s]
Date(s) == [t |-> "date", s |-> s]
ObjectId(hex) == [oid |-> hex]

NoDoc == [username |-> <<>>]
Present(doc) == doc # NoDoc

\* userSchema: username, password, email, birthday, favourites. No field is
\* declared unique, so the collection accepts two documents with one username.
UserDoc(username, email, password, birthday, favourites) ==
    [username |-> username, email |-> email, password |-> password,
     birthday |-> birthday, favourites |-> favourites]

Recognised == {"username", "email", "password", "birthday", "favourites"}

\* A value express-validator's optional({values: 'falsy'}) skips.
IsFalsy(field, value) ==
    CASE field = "username" -> value = EMPTY
      [] field = "email" -> value = EmailEmpty
      [] field = "password" -> value = ""
      [] field = "birthday" -> value.s = ""
      [] OTHER -> FALSE

\* --------------------------------------------------------- request bodies
OptField(name, values) == {<<>>} \cup {name :> v : v \in values}

FavLists == UNION {[1..n -> IdStrings] : n \in 0..MaxFavLen}

AllBodies ==
    {u @@ e @@ p @@ b @@ f @@ x :
        u \in OptField("username", {ALICE, CAROL, SHORT, BADCH, SHORTBAD, EMPTY}),
        e \in OptField("email", {EmailAlice, EmailAliceUpper, EmailCarol, EmailBad, EmailEmpty}),
        p \in OptField("password", {"pw1", "pw2", ""}),
        b \in OptField("birthday", {Str("1990-01-01"), Str("2000-02-02"), Str("nope"), Str("")}),
        f \in OptField("favourites", FavLists),
        x \in OptField("role", {"admin"})}

\* The bodies of the one-request specification.
Bodies == {b \in AllBodies : Cardinality(DOMAIN b \cap Recognised) <= MaxBodyFields}

\* The bodies of the concurrent specification.
ConcBodies == {"username" :> CAROL, "email" :> EmailCarol, "username" :> BOBBY}

Params == {ALICE, BOBBY, CAROL, SHORT}

\* ---------------------------------------------------------------- requests
Idle ==
    [pc |-> "idle", method |-> "", user |-> NoDoc, param |-> EMPTY, body |-> <<>>,
     fields |-> {}, errors |-> <<>>, bailed |-> FALSE, ran |-> <<>>,
     status |-> 0, message |-> "", collection |-> "", identifier |-> "", salt |-> 0,
     wrote |-> FALSE, faulted |-> FALSE, matched |-> FALSE, insert |-> "none"]

PatchOrder ==
    <<"checkBodyEmpty", "paramUsername", "ownership", "usernameChanged", "bodyUsername",
      "emailChanged", "emailValid", "passwordChanged", "birthdayChanged", "birthdayValid",
      "favouritesChanged", "favouritesValid", "checkExact", "handler", "done">>
DeleteOrder == <<"paramUsername", "ownership", "handler", "done">>
PostOrder == <<"checkBodyEmpty", "dynamicRouteValidation", "handler", "done">>

Order(method) ==
    CASE method = "PATCH" -> PatchOrder
      [] method = "DELETE" -> DeleteOrder
      [] OTHER -> PostOrder

IndexOf(seq, x) == CHOOSE i \in 1..Len(seq) : seq[i] = x

\* next(): the middleware after `pc` in the route's array.
NextPc(method, pc) == Order(method)[IndexOf(Order(method), pc) + 1]

\* The collections and requests of Init.
Seeded ==
    /\ users = [d \in Slots |->
                  IF d = 1 THEN UserDoc(ALICE, EmailAlice, [hash |-> "pw1", salt |-> 0],
                                        Date("1990-01-01"), <<ObjectId("m1"), ObjectId("m2")>>)
                  ELSE IF d = 2 THEN UserDoc(BOBBY, EmailBobby, [hash |-> "pw2", salt |-> 0],
                                             NullValue, <<>>)
                  ELSE NoDoc]
    /\ movies = {ObjectId("m1"), ObjectId("m2")}
    /\ genres = {}
    /\ directors = {}
    /\ reqs = [r \in Reqs |-> Idle]
    /\ started = 0

Init ==
    /\ Seeded
    /\ unit = [kind |-> "none"]

\* ------------------------------------------------ express-validator runner
\* bail({level: 'request'}): an earlier chain with the request-level flag has
\* recorded an error, so the runner returns before it selects any field.
NeverBail(req) == FALSE

RequestBail(req) == req.bailed

\* optional() / optional({values: 'falsy'}): the chain has no instance to check.
Skipped(req, field, values) ==
    \/ field \notin DOMAIN req.body
    \/ values = "falsy" /\ IsFalsy(field, req.body[field])

\* One validation chain run as a middleware: it registers its field, records
\* the outcome of its validator and calls next().
RunChain(req, chain, location, field, bail, skipped, outcome, lookups) ==
    IF RequestBail(req) THEN [req EXCEPT !.pc = NextPc(req.method, req.pc)]
    ELSE [req EXCEPT
            !.pc = NextPc(req.method, req.pc),
            !.fields = @ \cup {<<location, field>>},
            !.ran = IF skipped THEN @
                    ELSE Append(@, [chain |-> chain, failed |-> outcome # Accept,
                                    message |-> outcome, lookups |-> lookups]),
            !.errors = IF ~skipped /\ outcome # Accept THEN Append(@, outcome) ELSE @,
            !.bailed = bail /\ ~skipped /\ outcome # Accept]

\* users.exists({username})
Exists(collection, username) ==
    IF \E d \in Slots : collection[d].username = username THEN "found" ELSE "none"

\* The first document the filter {username} matches, 0 when none does.
FirstMatch(collection, username) ==
    IF \E d \in Slots : collection[d].username = username
    THEN CHOOSE d \in Slots :
            /\ collection[d].username = username
            /\ \A e \in Slots : collection[e].username = username => d <= e
    ELSE 0

\* ------------------------------------------------------------ middlewares
\* _checkBodyEmpty
CheckBodyEmpty(r) ==
    /\ reqs[r].pc = "checkBodyEmpty"
    /\ reqs' = [reqs EXCEPT ![r] =
                  IF DOMAIN reqs[r].body = {}
                  THEN [reqs[r] EXCEPT !.pc = "done", !.status = 400, !.message = MsgBodyEmpty]
                  ELSE [reqs[r] EXCEPT !.pc = NextPc(reqs[r].method, "checkBodyEmpty")]]
    /\ UNCHANGED <<users, movies, genres, directors, started, unit>>

\* _validateUsername(param).bail({level: 'request'})
ParamUsernameChain(r) ==
    /\ reqs[r].pc = "paramUsername"
    /\ \E lookup \in {Exists(users, reqs[r].param), "fault"} :
          reqs' = [reqs EXCEPT ![r] =
                     RunChain(@, "paramUsername", "params", "username", TRUE, FALSE,
                              ValidateUsername("param", @.param, lookup),
                              IF UsernameLookedUp(@.param) THEN 1 ELSE 0)]
    /\ UNCHANGED <<users, movies, genres, directors, started, unit>>

\* The mutant of the ownership validator: any caller passes.
IsOwnerAnyone(req) == TRUE

\* value === req.user.username
IsOwner(req) == req.param = req.user.username

\* param('username', 'You are not allowed to ...').custom(...)
OwnershipChain(r) ==
    /\ reqs[r].pc = "ownership"
    /\ reqs' = [reqs EXCEPT ![r] =
                  RunChain(@, "ownership", "params", "username", @.method = "PATCH", FALSE,
                           IF IsOwner(@) THEN Accept
                           ELSE IF @.method = "DELETE" THEN MsgNotAllowedDelete
                           ELSE MsgNotAllowedUpdate,
                           0)]
    /\ UNCHANGED <<users, movies, genres, directors, started, unit>>

\* _validateUserFieldChanged(body, field): the changed-check of the users route.
ValidateUserFieldChanged(field, fieldValue, user) ==
    IF ValidateFieldUnchanged(field, fieldValue, user) THEN Accept ELSE MsgUnchanged(field)

\* _validateUserFieldChanged(body, field).bail({level: 'request'}).optional(...)
FieldChangedChain(r, pc, field, values) ==
    /\ reqs[r].pc = pc
    /\ reqs' = [reqs EXCEPT ![r] =
                  LET skipped == Skipped(@, field, values) IN
                  RunChain(@, pc, "body", field, TRUE, skipped,
                           IF skipped \/ RequestBail(@) THEN Accept
                           ELSE ValidateUserFieldChanged(field, @.body[field], @.user),
                           0)]
    /\ UNCHANGED <<users, movies, genres, directors, started, unit>>

UsernameChangedChain(r) == FieldChangedChain(r, "usernameChanged", "username", "falsy")
EmailChangedChain(r) == FieldChangedChain(r, "emailChanged", "email", "falsy")
PasswordChangedChain(r) == FieldChangedChain(r, "passwordChanged", "password", "falsy")
BirthdayChangedChain(r) == FieldChangedChain(r, "birthdayChanged", "birthday", "falsy")
FavouritesChangedChain(r) == FieldChangedChain(r, "favouritesChanged", "favourites", "undefined")

\* _validateUsername(body).bail({level: 'request'}).optional({values: 'falsy'})
BodyUsernameChain(r) ==
    /\ reqs[r].pc = "bodyUsername"
    /\ LET skipped == Skipped(reqs[r], "username", "falsy") \/ RequestBail(reqs[r]) IN
       \E lookup \in IF skipped THEN {"none"}
                     ELSE {Exists(users, reqs[r].body["username"]), "fault"} :
          reqs' = [reqs EXCEPT ![r] =
                     RunChain(@, "bodyUsername", "body", "username", TRUE,
                              Skipped(@, "username", "falsy"),
                              IF skipped THEN Accept
                              ELSE ValidateUsername("body", @.body["username"], lookup),
                              IF ~skipped /\ UsernameLookedUp(@.body["username"]) THEN 1 ELSE 0)]
    /\ UNCHANGED <<users, movies, genres, directors, started, unit>>

\* body('email', ...).isEmail().bail({level: 'request'}).normalizeEmail().optional(falsy)
EmailValidChain(r) ==
    /\ reqs[r].pc = "emailValid"
    /\ reqs' = [reqs EXCEPT ![r] =
                  LET skipped == Skipped(@, "email", "falsy")
                      run == ~skipped /\ ~RequestBail(@)
                      valid == run /\ IsEmail(@.body["email"])
                      next == RunChain(@, "emailValid", "body", "email", TRUE, skipped,
                                       IF ~run \/ valid THEN Accept ELSE MsgEmailInvalid, 0)
                  IN  IF valid
                      THEN [next EXCEPT !.body = ("email" :> NormalizeEmail(@["email"])) @@ @]
                      ELSE next]
    /\ UNCHANGED <<users, movies, genres, directors, started, unit>>

\* _valiDate(body, 'birthday', ...).bail({level: 'request'}).optional({values: 'undefined'})
BirthdayValidChain(r) ==
    /\ reqs[r].pc = "birthdayValid"
    /\ reqs' = [reqs EXCEPT ![r] =
                  LET skipped == Skipped(@, "birthday", "undefined") IN
                  RunChain(@, "birthdayValid", "body", "birthday", TRUE, skipped,
                           IF skipped \/ RequestBail(@) THEN Accept
                           ELSE ValiDate(@.body["birthday"], MsgBirthdayInvalid),
                           0)]
    /\ UNCHANGED <<users, movies, genres, directors, started, unit>>

\* _validateFavourites(): the cross-reference check of favourites against movies.
ValidateFavourites(fieldValue, collection, faultAt) ==
    ValidateIdInCollection(TRUE, fieldValue, collection, MsgMovieNotFound, faultAt)

\* _validateFavourites().optional()
FavouritesValidChain(r) ==
    /\ reqs[r].pc = "favouritesValid"
    /\ LET skipped == Skipped(reqs[r], "favourites", "undefined") \/ RequestBail(reqs[r]) IN
       \E faultAt \in IF skipped THEN {0} ELSE 0..Len(reqs[r].body["favourites"]) :
          LET check == IF skipped THEN [outcome |-> Accept, lookups |-> <<>>]
                       ELSE ValidateFavourites(reqs[r].body["favourites"], movies, faultAt)
          IN  reqs' = [reqs EXCEPT ![r] =
                         RunChain(@, "favouritesValid", "body", "favourites", FALSE,
                                  Skipped(@, "favourites", "undefined"),
                                  check.outcome, Len(check.lookups))]
    /\ UNCHANGED <<users, movies, genres, directors, started, unit>>

\* The mutant of checkExact: nothing is unknown.
UnknownFieldsNone(req) == {}

\* checkExact([]): the body fields no registered chain names. A location no
\* chain was registered for is not inspected.
UnknownFields(req) ==
    IF \E f \in Recognised : <<"body", f>> \in req.fields
    THEN {f \in DOMAIN req.body : <<"body", f>> \notin req.fields}
    ELSE {}

\* checkExact([], {message: 'Request body contains unknown fields.'})
CheckExact(r) ==
    /\ reqs[r].pc = "checkExact"
    /\ reqs' = [reqs EXCEPT ![r] =
                  [reqs[r] EXCEPT !.pc = NextPc(reqs[r].method, "checkExact"),
                                  !.errors = IF UnknownFields(reqs[r]) # {}
                                             THEN Append(@, MsgUnknownFields) ELSE @]]
    /\ UNCHANGED <<users, movies, genres, directors, started, unit>>

\* ---------------------------------------------------------------- handlers
\* matchedData(req): per field, the value of the last chain that checked it. A
\* body username replaces the path parameter of the same name.
MatchedData(req) ==
    LET has(f, values) == ~Skipped(req, f, values)
        picked == {f \in Recognised \ {"username"} :
                      has(f, IF f \in {"birthday", "favourites"} THEN "undefined" ELSE "falsy")}
    IN  [f \in picked \cup {"username"} |->
            IF f = "username"
            THEN (IF has("username", "falsy") THEN req.body["username"] ELSE req.param)
            ELSE req.body[f]]

\* The value the schema stores for a field of an update.
CastField(field, value) ==
    CASE field = "birthday" -> ParseISO(value)
      [] field = "favourites" -> [i \in 1..Len(value) |-> CastObjectId(value[i])]
      [] OTHER -> value

\* updateOne as an upsert: a document is inserted when none matches.
UpdateOneUpsert(collection, username, data) ==
    LET d == FirstMatch(collection, username)
        free == {e \in Slots : ~Present(collection[e])}
    IN  IF d # 0
        THEN [collection EXCEPT ![d] =
                [f \in DOMAIN @ |-> IF f \in DOMAIN data THEN CastField(f, data[f]) ELSE @[f]]]
        ELSE IF free = {} THEN collection
        ELSE [collection EXCEPT ![CHOOSE e \in free : TRUE] =
                UserDoc(username, EmailEmpty, [hash |-> "", salt |-> 0], NullValue, <<>>)]

\* users.updateOne({username}, data): the collection after it. The first
\* matching document takes the fields of data; no document is inserted.
UpdateOne(collection, username, data) ==
    LET d == FirstMatch(collection, username) IN
    IF d = 0 THEN collection
    ELSE [collection EXCEPT ![d] =
            [f \in DOMAIN @ |-> IF f \in DOMAIN data THEN CastField(f, data[f]) ELSE @[f]]]

\* users.deleteOne({username}): the collection after it.
DeleteOne(collection, username) ==
    LET d == FirstMatch(collection, username) IN
    IF d = 0 THEN collection ELSE [collection EXCEPT ![d] = NoDoc]

\* The mutant of validationResult: the handler sees no validation error.
ValidationResultEmpty(req) == <<>>

\* validationResult(req): the errors the validators of the request recorded;
\* .throw() raises them when there is one.
ValidationResult(req) == req.errors

\* The catch block shared by the handlers: the first validation error is a 422.
Rejected(req) ==
    [req EXCEPT !.pc = "done", !.status = 422, !.message = req.errors[1]]

\* The async handler of app.patch('/users/:username').
PatchHandler(r) ==
    LET req == reqs[r] IN
    /\ req.pc = "handler" /\ req.method = "PATCH"
    /\ IF ValidationResult(req) # <<>>
       THEN /\ reqs' = [reqs EXCEPT ![r] = Rejected(req)]
            /\ UNCHANGED users
       ELSE \E fault \in BOOLEAN :
              LET matched == MatchedData(req)
                  data == IF "password" \in DOMAIN matched
                          THEN ("password" :> HashPassword(matched["password"], req.salt)) @@ matched
                          ELSE matched
                  after == UpdateOne(users, req.param, data)
                  modifiedCount == IF after = users THEN 0 ELSE 1
              IN  IF fault
                  THEN /\ reqs' = [reqs EXCEPT ![r] =
                                     [req EXCEPT !.pc = "done", !.status = 500,
                                                 !.message = MsgDatabaseError, !.faulted = TRUE]]
                       /\ UNCHANGED users
                  ELSE /\ users' = after
                       /\ reqs' = [reqs EXCEPT ![r] =
                                     [req EXCEPT !.pc = "done",
                                                 !.status = IF modifiedCount = 0 THEN 404 ELSE 200,
                                                 !.message = IF modifiedCount = 0 THEN "was not found."
                                                             ELSE "Successfully updated user",
                                                 !.matched = FirstMatch(users, req.param) # 0,
                                                 !.wrote = modifiedCount # 0]]
    /\ UNCHANGED <<movies, genres, directors, started, unit>>

\* The async handler of app.delete('/users/:username').
DeleteHandler(r) ==
    LET req == reqs[r] IN
    /\ req.pc = "handler" /\ req.method = "DELETE"
    /\ IF ValidationResult(req) # <<>>
       THEN /\ reqs' = [reqs EXCEPT ![r] = Rejected(req)]
            /\ UNCHANGED users
       ELSE \E fault \in BOOLEAN :
              LET data == MatchedData(req)
                  after == DeleteOne(users, data["username"])
                  deletedCount == IF after = users THEN 0 ELSE 1
              IN  IF fault
                  THEN /\ reqs' = [reqs EXCEPT ![r] =
                                     [req EXCEPT !.pc = "done", !.status = 500,
                                                 !.message = MsgDatabaseError, !.faulted = TRUE]]
                       /\ UNCHANGED users
                  ELSE /\ users' = after
                       /\ reqs' = [reqs EXCEPT ![r] =
                                     [req EXCEPT !.pc = "done",
                                                 !.status = IF deletedCount = 0 THEN 404 ELSE 200,
                                                 !.message = IF deletedCount = 0 THEN "wasn't found."
                                                             ELSE "was deleted.",
                                                 !.matched = deletedCount # 0,
                                                 !.wrote = deletedCount # 0]]
    /\ UNCHANGED <<movies, genres, directors, started, unit>>

\* ------------------------------------------------------------------ create
\* The document key a create request carries, per collection.
KeyField(collection) ==
    CASE collection = "users" -> "username"
      [] collection = "movies" -> "title"
      [] OTHER -> "name"

\* collection.exists({key}) on the collection a create request targets. A
\* movie is identified by its title, which the model takes for its id.
KeyExists(req) ==
    LET key == req.body[KeyField(req.collection)] IN
    CASE req.collection = "users" -> Exists(users, key)
      [] req.collection = "movies" -> IF ObjectId(key) \in movies THEN "found" ELSE "none"
      [] req.collection = "genres" -> IF key \in genres THEN "found" ELSE "none"
      [] OTHER -> IF key \in directors THEN "found" ELSE "none"

\* _dynamicRouteValidation: the create routes' validation of the new key.
DynamicRouteValidation(r) ==
    LET req == reqs[r] IN
    /\ req.pc = "dynamicRouteValidation"
    /\ \E lookup \in {KeyExists(req), "fault"} :
          reqs' = [reqs EXCEPT ![r] =
                     RunChain(req, "dynamicRouteValidation", "body", KeyField(req.collection),
                              TRUE, FALSE,
                              IF req.collection = "users"
                              THEN ValidateUsername("body", req.body["username"], lookup)
                              ELSE IF lookup = "fault" THEN MsgDatabaseError
                              ELSE IF lookup = "found" THEN "already exists in the database."
                              ELSE Accept,
                              1)]
    /\ UNCHANGED <<users, movies, genres, directors, started, unit>>

Identifiers == {"user", "movie", "genre", "director"}

\* _createDocument: the request after the handler has run. collection.create(data)
\* is called and not awaited, so the 201 is sent while the insert is pending.
CreateDocument(req) ==
    IF req.errors # <<>> THEN Rejected(req)
    ELSE IF req.identifier \notin Identifiers
         THEN [req EXCEPT !.pc = "done", !.status = 500, !.message = MsgDatabaseError]
    ELSE [req EXCEPT !.pc = "done", !.status = 201, !.message = "was created.",
                     !.insert = "pending"]

\* The handlers of app.post('/users') and app.post(['/directors', '/genres', '/movies']).
PostHandler(r) ==
    /\ reqs[r].pc = "handler" /\ reqs[r].method = "POST"
    /\ reqs' = [reqs EXCEPT ![r] = CreateDocument(reqs[r])]
    /\ UNCHANGED <<users, movies, genres, directors, started, unit>>

FreeSlots(collection) == {d \in Slots : ~Present(collection[d])}

\* The document a create request inserts into users.
NewUser(req) ==
    UserDoc(req.body["username"], req.body["email"],
            HashPassword(req.body["password"], req.salt), NullValue, <<>>)

\* The promise of collection.create(data) resolves: the document is stored.
InsertCompletes(r) ==
    LET req == reqs[r] IN
    /\ req.insert = "pending"
    /\ req.collection = "users" => FreeSlots(users) # {}
    /\ users' = IF req.collection = "users"
                THEN [users EXCEPT ![CHOOSE d \in FreeSlots(users) :
                                        \A e \in FreeSlots(users) : d <= e] = NewUser(req)]
                ELSE users
    /\ movies' = IF req.collection = "movies"
                 THEN movies \cup {ObjectId(req.body["title"])} ELSE movies
    /\ genres' = IF req.collection = "genres" THEN genres \cup {req.body["name"]} ELSE genres
    /\ directors' = IF req.collection = "directors"
                    THEN directors \cup {req.body["name"]} ELSE directors
    /\ reqs' = [reqs EXCEPT ![r] =
                  [req EXCEPT !.insert = "done", !.wrote = TRUE]]
    /\ UNCHANGED <<started, unit>>

\* The promise of collection.create(data) rejects: a storage fault. Nothing
\* handles the rejection of the promise that was not awaited.
InsertFaults(r) ==
    LET req == reqs[r] IN
    /\ req.insert = "pending"
    /\ reqs' = [reqs EXCEPT ![r] =
                  [req EXCEPT !.insert = "failed", !.faulted = TRUE]]
    /\ UNCHANGED <<users, movies, genres, directors, started, unit>>

\* The response has been sent and no promise of the request is pending.
Finish(r) ==
    /\ reqs[r].pc = "done"
    /\ reqs[r].insert # "pending"
    /\ reqs' = [reqs EXCEPT ![r] = Idle]
    /\ UNCHANGED <<users, movies, genres, directors, started, unit>>

\* ---------------------------------------------------------------- arrivals
\* passport.authenticate('jwt'): req.user is the document of the token's user
\* as read when the request arrives.
Authenticate(d) == users[d]

\* PATCH /users/:username arrives, authenticated as the user of slot d.
StartPatch(r, d, param, body) ==
    /\ reqs[r].pc = "idle"
    /\ Present(users[d])
    /\ reqs' = [reqs EXCEPT ![r] =
                  [Idle EXCEPT !.pc = "checkBodyEmpty", !.method = "PATCH",
                               !.user = Authenticate(d), !.param = param, !.body = body,
                               !.salt = started + 1]]
    /\ started' = started + 1
    /\ UNCHANGED <<users, movies, genres, directors, unit>>

\* DELETE /users/:username arrives, authenticated as the user of slot d.
StartDelete(r, d, param) ==
    /\ reqs[r].pc = "idle"
    /\ Present(users[d])
    /\ reqs' = [reqs EXCEPT ![r] =
                  [Idle EXCEPT !.pc = "paramUsername", !.method = "DELETE",
                               !.user = Authenticate(d), !.param = param,
                               !.salt = started + 1]]
    /\ started' = started + 1
    /\ UNCHANGED <<users, movies, genres, directors, unit>>

\* The bodies of the create requests, per collection.
PostBodies(collection) ==
    CASE collection = "users" ->
            {("username" :> u) @@ ("email" :> EmailCarol) @@ ("password" :> "pw3") :
                u \in {CAROL, ALICE, SHORT}} \cup {<<>>}
      [] collection = "movies" -> {"title" :> "m3", "title" :> "m1"}
      [] collection = "genres" -> {"name" :> "g1"}
      [] OTHER -> {"name" :> "d1"}

\* POST /users, /movies, /genres or /directors arrives. identifier is the
\* fourth argument its handler passes to _createDocument ("" when it passes none).
StartPost(r, collection, identifier, body) ==
    /\ reqs[r].pc = "idle"
    /\ collection = "users" =>
          Cardinality(FreeSlots(users)) >
             Cardinality({q \in Reqs : reqs[q].collection = "users" /\ reqs[q].insert # "done"})
    /\ reqs' = [reqs EXCEPT ![r] =
                  [Idle EXCEPT !.pc = "checkBodyEmpty", !.method = "POST",
                               !.collection = collection, !.identifier = identifier,
                               !.body = body, !.salt = started + 1]]
    /\ started' = started + 1
    /\ UNCHANGED <<users, movies, genres, directors, unit>>

Collections == {"users", "movies", "genres", "directors"}
Singular(collection) ==
    CASE collection = "users" -> "user"
      [] collection = "movies" -> "movie"
      [] collection = "genres" -> "genre"
      [] OTHER -> "director"

\* ------------------------------------------------------------ specifications
\* Every middleware and handler of request r, and the completion of its insert.
Pipeline(r) ==
    \/ CheckBodyEmpty(r)
    \/ ParamUsernameChain(r)
    \/ OwnershipChain(r)
    \/ UsernameChangedChain(r)
    \/ BodyUsernameChain(r)
    \/ EmailChangedChain(r)
    \/ EmailValidChain(r)
    \/ PasswordChangedChain(r)
    \/ BirthdayChangedChain(r)
    \/ BirthdayValidChain(r)
    \/ FavouritesChangedChain(r)
    \/ FavouritesValidChain(r)
    \/ CheckExact(r)
    \/ PatchHandler(r)
    \/ DeleteHandler(r)
    \/ DynamicRouteValidation(r)
    \/ PostHandler(r)
    \/ InsertCompletes(r)
    \/ InsertFaults(r)
    \/ Finish(r)

\* One request, of any shape, against the seeded collections.
Arrive ==
    /\ started = 0
    /\ \/ \E d \in Slots, param \in Params, body \in Bodies : StartPatch(1, d, param, body)
       \/ \E d \in Slots, param \in Params : StartDelete(1, d, param)
       \/ \E c \in Collections :
             \E i \in {Singular(c), ""}, body \in PostBodies(c) : StartPost(1, c, i, body)

Next == Arrive \/ Pipeline(1)

Spec == Init /\ [][Next]_vars

\* Concurrent requests with small bodies.
ArriveConc ==
    /\ started < MaxStarted
    /\ \E r \in Reqs :
          \/ \E d \in Slots, param \in {ALICE, BOBBY}, body \in ConcBodies :
                StartPatch(r, d, param, body)
          \/ \E d \in Slots, param \in {ALICE, BOBBY} : StartDelete(r, d, param)
          \/ \E body \in PostBodies("users") \ {<<>>} : StartPost(r, "users", "user", body)

NextConc == ArriveConc \/ \E r \in Reqs : Pipeline(r)

SpecConc == Init /\ [][NextConc]_vars

\* ------------------------------------------------- the helpers on their own
StoredLists == UNION {[1..n -> {ObjectId("m1"), ObjectId("m2")}] : n \in 0..MaxFavLen}

\* The arguments a helper is applied to.
InitUnit ==
    /\ Seeded
    /\ \/ \E request \in {"body", "param"}, fault \in BOOLEAN,
             username \in {ALICE, BOBBY, CAROL, SHORT, BADCH, SHORTBAD, EMPTY} :
             unit = [kind |-> "username", applied |-> FALSE, request |-> request,
                     username |-> username, fault |-> fault]
       \/ \E fieldValue \in FavLists, faultAt \in 0..MaxFavLen, isArray \in BOOLEAN :
             /\ ~isArray => Len(fieldValue) = 1
             /\ unit = [kind |-> "ids", applied |-> FALSE, isArray |-> isArray,
                        fieldValue |-> fieldValue, faultAt |-> faultAt]
       \/ \E fieldValue \in FavLists, stored \in StoredLists :
             unit = [kind |-> "favourites", applied |-> FALSE,
                     fieldValue |-> fieldValue, stored |-> stored]

\* Both _validateUsername helpers on a username, with users.exists answered by
\* the users collection or by a storage fault.
ApplyValidateUsername ==
    /\ unit.kind = "username" /\ ~unit.applied
    /\ LET lookup == IF unit.fault THEN "fault" ELSE Exists(users, unit.username) IN
       unit' = [unit EXCEPT !.applied = TRUE] @@
               [out |-> ValidateUsername(unit.request, unit.username, lookup),
                out_2 |-> ValidateUsername_2(unit.request, unit.username, lookup)]
    /\ UNCHANGED <<users, movies, genres, directors, reqs, started>>

\* Both _validateIdInCollection helpers on an id or a list of ids, against movies.
ApplyValidateIdInCollection ==
    /\ unit.kind = "ids" /\ ~unit.applied
    /\ unit' = [unit EXCEPT !.applied = TRUE] @@
               [out |-> ValidateIdInCollection(unit.isArray, unit.fieldValue, movies,
                                               MsgMovieNotFound, unit.faultAt),
                out_2 |-> ValidateIdInCollection_2(unit.isArray, unit.fieldValue, movies,
                                                   MsgMovieNotFound, unit.faultAt)]
    /\ UNCHANGED <<users, movies, genres, directors, reqs, started>>

\* Both changed-checks on a favourites list, for a user storing `stored`.
ApplyValidateFieldUnchanged ==
    /\ unit.kind = "favourites" /\ ~unit.applied
    /\ LET user == [users[1] EXCEPT !.favourites = unit.stored] IN
       unit' = [unit EXCEPT !.applied = TRUE] @@
               [out |-> ValidateFieldUnchanged("favourites", unit.fieldValue, user),
                out_2 |-> ValidateUserFieldUnchanged("favourites", unit.fieldValue, user)]
    /\ UNCHANGED <<users, movies, genres, directors, reqs, started>>

NextUnit ==
    \/ ApplyValidateUsername
    \/ ApplyValidateIdInCollection
    \/ ApplyValidateFieldUnchanged

SpecUnit == InitUnit /\ [][NextUnit]_vars

\* ================================================================== claims
\* The position of a validator in the order the users route declares: the path
\* parameter's existence, ownership, then the body fields.
Rank(chain) ==
    CASE chain = "paramUsername" -> 1
      [] chain = "ownership" -> 2
      [] chain \in {"usernameChanged", "bodyUsername"} -> 3
      [] chain \in {"emailChanged", "emailValid"} -> 4
      [] chain = "passwordChanged" -> 5
      [] chain \in {"birthdayChanged", "birthdayValid"} -> 6
      [] OTHER -> 7

\* The index in `ran` of the first validator that failed, 0 when none did.
FirstFailure(ran) ==
    IF \E i \in 1..Len(ran) : ran[i].failed
    THEN CHOOSE i \in 1..Len(ran) : ran[i].failed /\ \A j \in 1..(i - 1) : ~ran[j].failed
    ELSE 0

\* C1: a PATCH /users/:username request whose body holds only recognised fields
\* runs its validators in the declared order (path parameter's existence,
\* ownership, username, email, password, birthday, favourites); once one has
\* failed no later validator looks anything up in the database; and the
\* response is a 422 carrying the message of the first validator that failed.
C1_DeclaredOrderFirstFailure ==
    \A r \in Reqs :
        LET req == reqs[r]
            ran == req.ran
            k == FirstFailure(ran)
        IN  (req.method = "PATCH" /\ DOMAIN req.body \subseteq Recognised) =>
               /\ \A i, j \in 1..Len(ran) : i < j => Rank(ran[i].chain) <= Rank(ran[j].chain)
               /\ k # 0 => \A j \in (k + 1)..Len(ran) : ran[j].lookups = 0
               /\ (req.pc = "done" /\ k # 0) =>
                     req.status = 422 /\ req.message = ran[k].message
               /\ (req.pc = "done" /\ req.status = 422) => k # 0
               /\ req.pc = "done" => ~(k # 0 /\ req.wrote)

\* C1 witness: the email and the favourites of a finished request are both
\* invalid; the email's message was returned and favourites was never checked.
C1_Witness ==
    \E r \in Reqs :
        /\ reqs[r].method = "PATCH" /\ reqs[r].pc = "done"
        /\ DOMAIN reqs[r].body = {"email", "favourites"}
        /\ reqs[r].body["email"] = EmailBad
        /\ reqs[r].body["favourites"] = <<"zz">>
        /\ reqs[r].status = 422 /\ reqs[r].message = MsgEmailInvalid
        /\ \A i \in 1..Len(reqs[r].ran) : reqs[r].ran[i].chain # "favouritesValid"

\* C2: a user document is changed or removed only by the handler of a PATCH or
\* DELETE request whose authenticated user's username equals its :username
\* parameter, and the document it touches carries that username; a request
\* authenticated as another user writes nothing.
C2_OwnerOnlyMutation ==
    [][/\ \A d \in Slots :
             (Present(users[d]) /\ users'[d] # users[d]) =>
                \E r \in Reqs :
                   /\ reqs[r].pc = "handler" /\ reqs'[r].pc = "done"
                   /\ reqs[r].method \in {"PATCH", "DELETE"}
                   /\ reqs[r].user.username = reqs[r].param
                   /\ users[d].username = reqs[r].param
       /\ \A r \in Reqs :
             (reqs'[r].method \in {"PATCH", "DELETE"}
                /\ reqs'[r].user.username # reqs'[r].param) => ~reqs'[r].wrote]_vars

\* C2 witness: an owner's update has been applied while another user's request
\* on the same record stands rejected.
C2_Witness ==
    \E r, q \in Reqs :
        /\ reqs[r].method = "PATCH" /\ reqs[r].wrote /\ reqs[r].status = 200
        /\ reqs[r].user.username = reqs[r].param
        /\ reqs[q].method \in {"PATCH", "DELETE"} /\ reqs[q].pc = "done"
        /\ reqs[q].user.username # reqs[q].param
        /\ reqs[q].param = reqs[r].param
        /\ reqs[q].status = 422

\* C3: a DELETE /users/:username request authenticated as a user whose username
\* differs from :username is answered 403, whether or not the target exists.
C3_DeleteByOtherUserIs403 ==
    \A r \in Reqs :
        (reqs[r].method = "DELETE" /\ reqs[r].pc = "done"
           /\ reqs[r].user.username # reqs[r].param) => reqs[r].status = 403

\* C4: an authenticated PATCH /users/:username request whose body holds a field
\* outside {username, email, password, birthday, favourites} is answered 422
\* and updates nothing, whatever its other fields hold.
C4_UnknownFieldRejected ==
    \A r \in Reqs :
        (reqs[r].method = "PATCH" /\ ~(DOMAIN reqs[r].body \subseteq Recognised)) =>
           /\ ~reqs[r].wrote
           /\ reqs[r].pc = "done" => reqs[r].status = 422

\* C4 witness: the owner's request carries a valid new email and an unknown
\* field; it passed every validator and was rejected for the unknown field.
C4_Witness ==
    \E r \in Reqs :
        /\ reqs[r].method = "PATCH" /\ reqs[r].pc = "done"
        /\ reqs[r].user.username = reqs[r].param
        /\ DOMAIN reqs[r].body = {"email", "role"}
        /\ reqs[r].body["email"] = EmailCarol
        /\ reqs[r].status = 422 /\ reqs[r].message = MsgUnknownFields

\* C5: the favourites changed-check accepts a new list exactly when its length
\* differs from the stored list's or some index holds an id that differs from
\* the stored id at that index; an element-wise equal list is rejected and a
\* reordering is accepted. Both helper modules' checks are held to it.
C5_FavouritesChangedExactly ==
    (unit.kind = "favourites" /\ unit.applied) =>
        LET new == unit.fieldValue
            stored == unit.stored
            differs == \/ Len(new) # Len(stored)
                       \/ \E i \in 1..Len(new) : new[i] # stored[i].oid
        IN  /\ unit.out = differs
            /\ unit.out_2 = differs

\* C5 witness: the stored list [m1, m2] against the reordered [m2, m1], accepted.
C5_Witness ==
    /\ unit.kind = "favourites" /\ unit.applied
    /\ unit.stored = <<ObjectId("m1"), ObjectId("m2")>>
    /\ unit.fieldValue = <<"m2", "m1">>
    /\ unit.out /\ unit.out_2

\* C6: the username validator rejects a username of fewer than 5 characters
\* with the length message, otherwise one that does not match ^[a-zA-Z0-9]+$
\* with the non-alphanumeric message, and otherwise makes one existence check
\* whose answer decides: on the body it rejects exactly when a user with that
\* username exists, on the path parameter exactly when none does. (When the
\* lookup itself faults the validator rejects with the database error.) Both
\* helper modules' validators are held to it.
C6_UsernameValidator ==
    (unit.kind = "username" /\ unit.applied) =>
        LET u == unit.username
            exists == \E d \in Slots : Present(users[d]) /\ users[d].username = u
            alnum == \A i \in 1..Len(u) : u[i] \in LowerCase \cup UpperCase \cup Digits
            holds(out) ==
                IF Len(u) < 5 THEN out = MsgUsernameLength
                ELSE IF ~alnum THEN out = MsgUsernameAlnum
                ELSE IF unit.fault THEN out = MsgDatabaseError
                ELSE /\ out \notin {MsgUsernameLength, MsgUsernameAlnum, MsgDatabaseError}
                     /\ unit.request = "body" => (out # Accept <=> exists)
                     /\ unit.request = "param" => (out # Accept <=> ~exists)
        IN  holds(unit.out) /\ holds(unit.out_2)

\* C6 witness: a well-formed username no user has, looked up as a path
\* parameter, is rejected as missing.
C6_Witness ==
    /\ unit.kind = "username" /\ unit.applied
    /\ unit.request = "param" /\ unit.username = CAROL /\ ~unit.fault
    /\ unit.out = MsgUsernameMissing /\ unit.out_2 = MsgUsernameMissing_2

\* C7: when no user document carries :username at the moment the handler of a
\* PATCH request that passed validation issues its update (the target was
\* deleted in between), and the update call returns, the response is 404 and
\* the users collection is left as it was.
C7_DeletedBeforeUpdateIs404 ==
    [][\A r \in Reqs :
          (/\ reqs[r].method = "PATCH" /\ reqs[r].pc = "handler" /\ reqs[r].errors = <<>>
           /\ ~\E d \in Slots : users[d].username = reqs[r].param
           /\ reqs'[r].pc = "done") =>
             /\ users' = users
             /\ reqs'[r].status = IF reqs'[r].faulted THEN 500 ELSE 404]_vars

\* C7 witness: a PATCH that passed validation answered 404 because nothing
\* matched, while a DELETE of the same user succeeded.
C7_Witness ==
    \E r, q \in Reqs :
        /\ reqs[r].method = "PATCH" /\ reqs[r].pc = "done" /\ reqs[r].errors = <<>>
        /\ reqs[r].status = 404 /\ ~reqs[r].matched
        /\ reqs[q].method = "DELETE" /\ reqs[q].status = 200
        /\ reqs[q].param = reqs[r].param

\* C8: no two documents of the users collection carry the same username.
C8_UsernamesUnique ==
    \A d, e \in Slots :
        (d # e /\ Present(users[d]) /\ Present(users[e])) =>
            users[d].username # users[e].username

RECURSIVE ExpectedLookups(_, _, _)
ExpectedLookups(ids, i, collection) ==
    IF i > Len(ids) \/ ~IsValidObjectId(ids[i]) THEN <<>>
    ELSE IF CastObjectId(ids[i]) \notin collection THEN <<ids[i]>>
    ELSE <<ids[i]>> \o ExpectedLookups(ids, i + 1, collection)

\* C10: the cross-reference check accepts exactly when every id is a valid
\* identifier that exists in the collection; it looks ids up in list order and
\* not past the first invalid or missing one; a storage fault during a lookup
\* gives the 'Database error' rejection, not the not-found message.
C10_Holds(out) ==
    LET ids == unit.fieldValue
        expected == ExpectedLookups(ids, 1, movies)
        faults == unit.faultAt \in 1..Len(expected)
        allGood == \A i \in 1..Len(ids) :
                      IsValidObjectId(ids[i]) /\ CastObjectId(ids[i]) \in movies
    IN  /\ out.lookups = IF faults THEN SubSeq(expected, 1, unit.faultAt) ELSE expected
        /\ out.outcome = IF faults THEN MsgDatabaseError
                         ELSE IF allGood THEN Accept
                         ELSE MsgMovieNotFound

\* C10, of both helper modules' _validateIdInCollection.
C10_CrossReferenceCheck ==
    (unit.kind = "ids" /\ unit.applied) => C10_Holds(unit.out) /\ C10_Holds(unit.out_2)

\* C10, of the first helper module's _validateIdInCollection alone.
C10_FirstHelperModule ==
    (unit.kind = "ids" /\ unit.applied) => C10_Holds(unit.out)

\* The collections of the store.
Store == <<users, movies, genres, directors>>

\* The request has failed a validation step: its body is empty, a validator
\* rejected its value, or its body holds a field no validator names.
FailedValidation(req) ==
    \/ req.status = 400
    \/ req.errors # <<>>

\* C11: for every PATCH and DELETE request on /users/:username the update or
\* delete is issued only by the handler, after the last validation step and
\* with no validation error recorded; a request that fails a validation step
\* is answered 400 or 422, and no step of it, from its arrival to its response,
\* changes any collection.
C11_ValidationBeforeWrite ==
    [][\A r \in Reqs :
          (reqs[r].method \in {"PATCH", "DELETE"} /\ reqs'[r] # reqs[r]) =>
             /\ Store' # Store =>
                   /\ reqs[r].pc = "handler" /\ reqs'[r].pc = "done"
                   /\ ~FailedValidation(reqs[r])
                   /\ reqs'[r].status = 200
             /\ reqs[r].pc # "handler" => Store' = Store
             /\ FailedValidation(reqs'[r]) =>
                   /\ Store' = Store
                   /\ ~reqs'[r].wrote
                   /\ reqs'[r].pc = "done" => reqs'[r].status \in {400, 422}
             /\ reqs'[r].status \in {400, 422} => FailedValidation(reqs'[r])]_vars

\* C11 witness: a PATCH whose new username is taken passed the earlier steps,
\* failed at the username validator and was answered 422, the users and movies
\* being those the store held when it arrived.
C11_Witness ==
    \E r \in Reqs :
        /\ reqs[r].method = "PATCH" /\ reqs[r].pc = "done"
        /\ reqs[r].user.username = reqs[r].param
        /\ reqs[r].status = 422 /\ reqs[r].message = MsgUsernameExists
        /\ ~reqs[r].wrote
        /\ users[1].username = ALICE /\ users[2].username = BOBBY /\ ~Present(users[3])
        /\ movies = {ObjectId("m1"), ObjectId("m2")}

\* C12: a PATCH /users/:username request is answered 404 only when no user
\* document carried :username at the moment its update was issued; an existing
\* owner's request that passed every validator and whose update call returned
\* is answered 200, also when every field of its body was falsy and skipped,
\* or when a value that passed the changed-check equals the stored one once it
\* is normalised or cast.
C12_NotFoundOnlyWhenMissing ==
    \A r \in Reqs :
        (reqs[r].method = "PATCH" /\ reqs[r].pc = "done") =>
           /\ reqs[r].status = 404 => ~reqs[r].matched
           /\ (reqs[r].matched /\ reqs[r].errors = <<>>) => reqs[r].status = 200

====
